---- MODULE Spec2Model ----
(***************************************************************************)
(* Model of the IMAP connector (src/src/imap.rs) and of the send command   *)
(* (src/src/email/message/command/send.rs).                                *)
(*                                                                         *)
(* Strings that the code converts (UIDs: u32 -> decimal text -> the UID    *)
(* set of a UID FETCH, parsed again by the server) are sequences of        *)
(* one-character strings; strings that are only passed through (mailbox    *)
(* names, queries, mime types) are TLA+ strings.                           *)
(***************************************************************************)
EXTENDS Naturals, Integers, Sequences, FiniteSets, TLC

\* ------------------------------------------------------------------ bounds
\* Largest number of messages the INBOX of the modelled server holds.
MaxMsgs == 21

\* The cap of read_emails: `uids[..20.min(uids.len())]`.
PageSize == 20

Callers == {"c1", "c2"}

NoCaller == "nobody"

\* ------------------------------------------------------------ text helpers
Digits == <<"0", "1", "2", "3", "4", "5", "6", "7", "8", "9">>

Min(a, b) == IF a < b THEN a ELSE b

RECURSIVE to_string(_)
\* u32::to_string: the decimal digits of n.
to_string(n) ==
    IF n < 10 THEN <<Digits[n + 1]>>
    ELSE to_string(n \div 10) \o <<Digits[(n % 10) + 1]>>

RECURSIVE Join(_, _)
\* [String]::join(sep)
Join(strs, sep) ==
    IF Len(strs) = 0 THEN <<>>
    ELSE IF Len(strs) = 1 THEN strs[1]
    ELSE strs[1] \o <<sep>> \o Join(Tail(strs), sep)

RECURSIVE Concat(_)
Concat(strs) ==
    IF Len(strs) = 0 THEN <<>> ELSE strs[1] \o Concat(Tail(strs))

RECURSIVE AscSeq(_)
\* The elements of a finite set of numbers in ascending order.
AscSeq(S) ==
    IF S = {} THEN <<>>
    ELSE LET m == CHOOSE x \in S : \A y \in S : x <= y
         IN  <<m>> \o AscSeq(S \ {m})

Reverse(s) == [i \in 1..Len(s) |-> s[Len(s) + 1 - i]]

Range(s) == {s[i] : i \in 1..Len(s)}

RECURSIVE KSubsets(_, _)
\* The subsets of S that have exactly k elements.
KSubsets(S, k) ==
    IF k = 0 THEN {{}}
    ELSE IF S = {} THEN {}
    ELSE LET x == CHOOSE y \in S : TRUE
         IN  {T \cup {x} : T \in KSubsets(S \ {x}, k - 1)}
             \cup KSubsets(S \ {x}, k)

\* --------------------------------------------------------- server (peer)
\* What the server parses out of the text of a UID set.
DigitVal(ch) == CHOOSE d \in 0..9 : Digits[d + 1] = ch

IsDigit(ch) == \E d \in 0..9 : Digits[d + 1] = ch

\* The pieces of str between the occurrences of sep.
SplitOn(str, sep) ==
    LET F[i \in 0..Len(str)] ==
            IF i = 0 THEN <<<<>>>>
            ELSE LET done == F[i - 1]
                 IN  IF str[i] = sep THEN Append(done, <<>>)
                     ELSE [done EXCEPT ![Len(done)] = Append(@, str[i])]
    IN  F[Len(str)]

ParseNat(str) ==
    LET F[i \in 0..Len(str)] ==
            IF i = 0 THEN 0 ELSE F[i - 1] * 10 + DigitVal(str[i])
    IN  F[Len(str)]

\* RFC 3501 sequence-set, restricted to comma-separated numbers: at least one
\* number, each at least one digit.  The empty text is not a sequence-set.
ValidUidSet(str) ==
    LET items == SplitOn(str, ",")
    IN  \A i \in 1..Len(items) :
            Len(items[i]) > 0 /\ \A j \in 1..Len(items[i]) : IsDigit(items[i][j])

ParseUidSet(str) ==
    LET items == SplitOn(str, ",")
    IN  {ParseNat(items[i]) : i \in 1..Len(items)}

Part(mime, text) == [mime |-> mime, text |-> text]

Bytes(valid, parts) == [valid |-> valid, parts |-> parts]

NoBody == [absent |-> TRUE]

SomeBody(bytes) == [absent |-> FALSE, bytes |-> bytes]

\* UIDs of the mailbox "Sent", in mailbox order.
SentUids == <<2, 4>>

\* The messages of a mailbox, in mailbox order (ascending UID).
MsgsOf(s, mbox) ==
    IF mbox = "INBOX" THEN [i \in 1..s.inbox |-> i]
    ELSE IF mbox = "Sent" THEN SentUids
    ELSE <<>>

\* The BODY[] payload the server holds for a message.
BodyOf(mbox, u) ==
    IF mbox = "Sent" THEN SomeBody(Bytes(TRUE, <<Part("text/plain", <<"s">>)>>))
    ELSE IF u = 2 THEN SomeBody(Bytes(TRUE, <<Part("text/html", <<"h">>)>>))
    ELSE IF u = 3 THEN SomeBody(Bytes(TRUE, <<Part("text/plain", <<"a">>),
                                               Part("text/html", <<"h">>),
                                               Part("text/plain", <<"b">>)>>))
    ELSE IF u = 4 THEN SomeBody(Bytes(FALSE, <<>>))
    ELSE IF u = 5 THEN NoBody
    ELSE IF u = 6 THEN SomeBody(Bytes(TRUE, <<Part("text/plain", <<>>)>>))
    ELSE SomeBody(Bytes(TRUE, <<Part("text/plain", <<"a">>)>>))

KnownQueries == {"ALL", "SEEN", "UNSEEN"}

\* The UIDs the server lists in its SEARCH response, in the server's order.
SearchResult(s, mbox, query) ==
    LET Hit(u) == \/ query = "ALL"
                  \/ query = "SEEN" /\ u <= s.seen
                  \/ query = "UNSEEN" /\ u > s.seen
    IN  SelectSeq(MsgsOf(s, mbox), Hit)

SummaryFetch(mbox, u) ==
    [uid |-> u, envelope |-> <<"envelope", mbox, u>>,
     internaldate |-> <<"date", mbox, u>>, body |-> NoBody]

BodyFetch(mbox, u) ==
    [uid |-> u, envelope |-> <<>>, internaldate |-> <<>>, body |-> BodyOf(mbox, u)]

\* The FETCH responses for a UID set: one per message of the selected mailbox
\* whose UID is in the set, in mailbox order, whatever the order of the set.
FetchResult(s, mbox, uidset, items) ==
    LET wanted == ParseUidSet(uidset)
        In(u)  == u \in wanted
        hits   == SelectSeq(MsgsOf(s, mbox), In)
    IN  [i \in 1..Len(hits) |->
            IF items = "BODY[]" THEN BodyFetch(mbox, hits[i])
            ELSE SummaryFetch(mbox, hits[i])]

\* ------------------------------------------------- server command replies
SrvOk(val) == [tag |-> "Ok", val |-> val]

SrvErr(kind) == [tag |-> "Err", kind |-> kind]

NoMbox == "(none)"

RawName(name) == [name |-> name, delim |-> "/"]

\* LIST "" "*": one raw listing entry per mailbox, in the server's order.
ServerList(s) == SrvOk([i \in 1..Len(s.list) |-> RawName(s.list[i])])

ServerSelect(s, mbox) ==
    IF mbox \in Range(s.list) THEN SrvOk(mbox) ELSE SrvErr("No")

\* UID SEARCH is evaluated against the mailbox the session has selected.
ServerSearch(s, sel, query) ==
    IF sel = NoMbox \/ query \notin KnownQueries THEN SrvErr("Bad")
    ELSE SrvOk(SearchResult(s, sel, query))

\* UID FETCH is evaluated against the mailbox the session has selected; a
\* UID set that is not a sequence-set is rejected with BAD.
ServerFetch(s, sel, uidset, items) ==
    IF sel = NoMbox \/ ~ValidUidSet(uidset) THEN SrvErr("Bad")
    ELSE SrvOk(FetchResult(s, sel, uidset, items))

\* Session::uid_fetch as the connector sees it.  A UID set that names nothing
\* is either sent as it is, and rejected, or answered with no responses by the
\* imap crate itself without asking the server: that depends on the version
\* of the crate the build links.
uid_fetch_replies(s, sel, uidset, items) ==
    IF Len(uidset) = 0 THEN {SrvErr("Bad"), SrvOk(<<>>)}
    ELSE {ServerFetch(s, sel, uidset, items)}

\* ------------------------------------------------------------ error wrapper
Error(variant, payload) == [variant |-> variant, payload |-> payload]

From_native_tls_Error(err) == Error("CreateTlsConnectorError", <<err>>)

From_imap_Error(err) == Error("CreateImapSession", <<err>>)

From_MailParseError(err) == Error("ParseEmailError", <<err>>)

ReadEmailNotFoundError(uid) == Error("ReadEmailNotFoundError", <<uid>>)

ReadEmailEmptyPartError(uid, mime) == Error("ReadEmailEmptyPartError", <<uid, mime>>)

Ok(val) == [tag |-> "Ok", val |-> val]

Err(err) == [tag |-> "Err", err |-> err]

Unset == [tag |-> "None"]

\* ------------------------------------------------------- connector helpers
\* Mailbox::from_name: the mailbox value of a raw listing entry.
Mailbox_from_name(raw) == [name |-> raw.name]

\* Email::from_fetch: the summary of one FETCH response.
Email_from_fetch(fetch) ==
    [uid |-> to_string(fetch.uid), envelope |-> fetch.envelope,
     date |-> fetch.internaldate]

\* Mutant: the listing is returned in reverse order.
list_mailboxes_result_Reversed(reply) ==
    IF reply.tag = "Err" THEN Err(From_imap_Error(reply.kind))
    ELSE Ok(Reverse([i \in 1..Len(reply.val) |-> Mailbox_from_name(reply.val[i])]))

\* `.list(Some(""), Some("*"))?.iter().map(Mailbox::from_name).collect()`
list_mailboxes_result(reply) ==
    IF reply.tag = "Err" THEN Err(From_imap_Error(reply.kind))
    ELSE Ok([i \in 1..Len(reply.val) |-> Mailbox_from_name(reply.val[i])])

\* uid_search returns a HashSet<Uid>: `.iter()` walks it in an order that has
\* nothing to do with the order of the server's response.  The orders drawn
\* here cover every set of UIDs that can come first: any k of the found UIDs
\* (k the window of read_emails) in ascending order, then the rest; and the
\* found UIDs in descending order.
HashSetIter(found) ==
    LET S == Range(found)
        k == Min(PageSize, Cardinality(S))
    IN  {Reverse(AscSeq(S))}
        \cup {AscSeq(S \ D) \o AscSeq(D) : D \in KSubsets(S, Cardinality(S) - k)}

\* `.iter().map(|n| n.to_string()).collect::<Vec<_>>()`
UidStrings(order) == [i \in 1..Len(order) |-> to_string(order[i])]

\* Mutant: no cap, `uids[..]`.
FetchWindow_NoCap(uids) == uids

\* `uids[..20.min(uids.len())]`
FetchWindow(uids) == SubSeq(uids, 1, Min(PageSize, Len(uids)))

\* `uids[..].join(",")`
UidSetArg(uids) == Join(FetchWindow(uids), ",")

\* `.uid_fetch(..)?.iter().map(Email::from_fetch).collect()`
read_emails_result(reply) ==
    IF reply.tag = "Err" THEN Err(From_imap_Error(reply.kind))
    ELSE Ok([i \in 1..Len(reply.val) |-> Email_from_fetch(reply.val[i])])

\* `&[]`: mailparse reads the empty message as one text/plain part, no text.
EmptyBytes == Bytes(TRUE, <<Part("text/plain", <<>>)>>)

\* `fetch.body().unwrap_or(&[])`
BodyBytes(fetch) == IF fetch.body.absent THEN EmptyBytes ELSE fetch.body.bytes

\* mailparse::parse_mail
parse_mail(bytes) ==
    IF bytes.valid THEN SrvOk(bytes.parts) ELSE SrvErr("MailParseError")

\* email::extract_text_bodies: the text of every part of the requested mime
\* type, in document order, as one string.
extract_text_bodies(mime, email) ==
    LET Wanted(part) == part.mime = mime
        parts == SelectSeq(email, Wanted)
    IN  Concat([i \in 1..Len(parts) |-> parts[i].text])

\* Mutant: the extraction runs on whatever parsed, `parse_mail(bytes).ok()`: a
\* body that does not parse is reported as an empty part.
read_email_body_some_ParseErrAsEmpty(fetch, uid, mime) ==
    LET email == parse_mail(BodyBytes(fetch))
        bodies == IF email.tag = "Err" THEN <<>>
                  ELSE extract_text_bodies(mime, email.val)
    IN  IF Len(bodies) = 0 THEN Err(ReadEmailEmptyPartError(uid, mime))
        ELSE Ok(bodies)

\* Mutant: a response without a body is an error at that step,
\* `fetch.body().ok_or(ReadEmailNotFoundError)?`.
read_email_body_some_AbsentAsNotFound(fetch, uid, mime) ==
    IF fetch.body.absent THEN Err(ReadEmailNotFoundError(uid))
    ELSE LET email == parse_mail(fetch.body.bytes)
         IN  IF email.tag = "Err" THEN Err(From_MailParseError(email.kind))
             ELSE LET bodies == extract_text_bodies(mime, email.val)
                  IN  IF Len(bodies) = 0
                      THEN Err(ReadEmailEmptyPartError(uid, mime))
                      ELSE Ok(bodies)

\* The rest of read_email_body once the message is fetched: the `Some(fetch)`
\* arm of the match.
read_email_body_some(fetch, uid, mime) ==
    LET email == parse_mail(BodyBytes(fetch))
    IN  IF email.tag = "Err" THEN Err(From_MailParseError(email.kind))
        ELSE LET bodies == extract_text_bodies(mime, email.val)
             IN  IF Len(bodies) = 0
                 THEN Err(ReadEmailEmptyPartError(uid, mime))
                 ELSE Ok(bodies)

\* Mutant: no fetch result is handled like a fetch result without a body.
read_email_body_result_NoneAsEmpty(reply, uid, mime) ==
    IF reply.tag = "Err" THEN Err(From_imap_Error(reply.kind))
    ELSE IF Len(reply.val) = 0
         THEN read_email_body_some([uid |-> 0, envelope |-> <<>>, internaldate |-> <<>>,
                                    body |-> NoBody], uid, mime)
    ELSE read_email_body_some(reply.val[1], uid, mime)

\* Mutant: an empty extraction is reported as "email not found".
read_email_body_result_EmptyAsNotFound(reply, uid, mime) ==
    IF reply.tag = "Err" THEN Err(From_imap_Error(reply.kind))
    ELSE IF Len(reply.val) = 0 THEN Err(ReadEmailNotFoundError(uid))
    ELSE LET r == read_email_body_some(reply.val[1], uid, mime)
         IN  IF r.tag = "Err" /\ r.err.variant = "ReadEmailEmptyPartError"
             THEN Err(ReadEmailNotFoundError(uid)) ELSE r

\* Mutant: a failed fetch command is reported as "email not found".
read_email_body_result_ErrAsNotFound(reply, uid, mime) ==
    IF reply.tag = "Err" \/ Len(reply.val) = 0 THEN Err(ReadEmailNotFoundError(uid))
    ELSE read_email_body_some(reply.val[1], uid, mime)

\* The body of read_email_body after the SELECT: `uid_fetch(uid, "BODY[]")?`
\* and the match on `.first()`.
read_email_body_result(reply, uid, mime) ==
    IF reply.tag = "Err" THEN Err(From_imap_Error(reply.kind))
    ELSE IF Len(reply.val) = 0 THEN Err(ReadEmailNotFoundError(uid))
    ELSE read_email_body_some(reply.val[1], uid, mime)

\* ------------------------------------------------------------------- state
VARIABLES
    srv,       \* the server: its mailbox listing and the content of INBOX
    config,    \* config::ServerInfo handed to ImapConnector::new
    ctor,      \* position of ImapConnector::new / existence of the connector
    newRet,    \* what ImapConnector::new returned when it failed
    steps,     \* the calls ImapConnector::new has made, with their outcome
    auth,      \* whether the server has authenticated the session's stream
    link,      \* the TLS stream under the session: "none", "up", "down"
    selected,  \* the mailbox the session has selected on the server
    borrow,    \* the caller holding the `&mut self` borrow of the connector
    pc,        \* per caller: position inside the operation it invoked
    args,      \* per caller: the arguments of the running operation
    uids,      \* per caller: the local `uids` of read_emails
    trace,     \* per caller: the protocol exchanges of the running operation
    last,      \* the operation that returned last: caller, arguments, value
    prev       \* the outcome of the operation that returned before `last`

imapVars == <<srv, config, ctor, newRet, steps, auth, link, selected, borrow,
              pc, args, uids, trace, last, prev>>

VARIABLES
    features,  \* the cargo features of the build: smtp, sendmail
    account,   \* the account configuration the send command resolves
    sendPc,    \* position of MessageSendCommand::execute
    ctx,       \* the backend context that Backend::new built
    msg,       \* the raw message handed to send_message
    sendRet,   \* what MessageSendCommand::execute returned
    printed,   \* what the printer was given
    outbox     \* the messages handed to a sender, with the sender's kind

sendVars == <<features, account, sendPc, ctx, msg, sendRet, printed, outbox>>

VARIABLES
    wizFeatures, \* the cargo features of the build, of the five backend kinds
    wizFn,       \* the wizard function called: configure or configure_sender
    wizPc,       \* position inside that function
    wizPick,     \* what the user did at the Select prompt
    wizKind,     \* the local `kind`: Option<BackendKind>
    wizRan,      \* the kind wizards that were run
    wizRet       \* what the function returned

wizardVars == <<wizFeatures, wizFn, wizPc, wizPick, wizKind, wizRan, wizRet>>

VARIABLES
    syncArgs,  \* the ArgMatches handed to account::args::matches
    syncPc,    \* position of account::args::matches
    syncCmd    \* what account::args::matches returned

syncVars == <<syncArgs, syncPc, syncCmd>>

vars == <<imapVars, sendVars, wizardVars, syncVars>>

\* What the operations of one part leave alone: the state of the other parts.
nonImapVars == <<sendVars, wizardVars, syncVars>>

nonSendVars == <<imapVars, wizardVars, syncVars>>

nonWizardVars == <<imapVars, sendVars, syncVars>>

nonSyncVars == <<imapVars, sendVars, wizardVars>>

NoCtx == [smtp |-> FALSE, sendmail |-> FALSE, send_message |-> "None"]

NoAccount == [exists |-> FALSE, kind |-> "None", smtp |-> FALSE, sendmail |-> FALSE]

\* The send command is not run.
SendOff ==
    /\ features = [smtp |-> FALSE, sendmail |-> FALSE]
    /\ account = NoAccount
    /\ sendPc = "off"
    /\ ctx = NoCtx
    /\ msg = <<>>
    /\ sendRet = Unset
    /\ printed = <<>>
    /\ outbox = <<>>

None == [some |-> FALSE]

Some(val) == [some |-> TRUE, val |-> val]

\* No wizard function is called.
WizardOff ==
    /\ wizFeatures = {}
    /\ wizFn = "none"
    /\ wizPc = "off"
    /\ wizPick = "none"
    /\ wizKind = None
    /\ wizRan = <<>>
    /\ wizRet = Unset

NoMatches == [account |-> None]

\* The account argument matcher is not run.
SyncOff ==
    /\ syncArgs = NoMatches
    /\ syncPc = "off"
    /\ syncCmd = Unset

ListChoices == {<<"INBOX">>, <<"Sent", "INBOX">>}

InboxSizes == {0, 6, PageSize, MaxMsgs}

ServerStates ==
    {[list |-> <<>>, inbox |-> 0, seen |-> 0]}
    \cup {[list |-> l, inbox |-> n, seen |-> k] :
            l \in ListChoices, n \in InboxSizes, k \in {0, 2}}

Configs == {[host |-> "mail", login |-> "user", password |-> pw] :
                pw \in {"secret", "wrong"}}

NoConfig == [host |-> "", login |-> "", password |-> ""]

Mboxes == {"INBOX", "Sent", "Nope"}

Queries == {"ALL", "SEEN", "BOGUS"}

UidArgs == {to_string(u) : u \in {1, 2, 3, 4, 5, 99}}

Mimes == {"text/plain", "text/html"}

NoArgs == [op |-> "none", mbox |-> "", query |-> "", uid |-> <<>>, mime |-> ""]

NoLast == [by |-> NoCaller, args |-> NoArgs, uids |-> <<>>, trace |-> <<>>,
           ret |-> Unset]

ImapInit ==
    /\ srv \in ServerStates
    /\ config = NoConfig
    /\ ctor = "none"
    /\ newRet = Unset
    /\ steps = <<>>
    /\ auth = FALSE
    /\ link = "none"
    /\ selected = NoMbox
    /\ borrow = NoCaller
    /\ pc = [c \in Callers |-> "idle"]
    /\ args = [c \in Callers |-> NoArgs]
    /\ uids = [c \in Callers |-> <<>>]
    /\ trace = [c \in Callers |-> <<>>]
    /\ last = NoLast
    /\ prev = "none"

\* One protocol exchange on the stream: the server's reply, or an I/O error
\* when the stream breaks (and on a broken stream, always an I/O error).
Outcomes(reply) ==
    IF link = "up"
    THEN {[reply |-> reply, link |-> "up"], [reply |-> SrvErr("Io"), link |-> "down"]}
    ELSE {[reply |-> SrvErr("Io"), link |-> "down"]}

\* The record of one exchange: the command, its argument, the mailbox the
\* server evaluated it against and the reply (of a FETCH, the number of
\* responses only).
Xchg(cmd, arg, sel, reply) ==
    [cmd |-> cmd, arg |-> arg, sel |-> sel,
     reply |-> IF cmd = "UID FETCH" /\ reply.tag = "Ok"
               THEN SrvOk(Len(reply.val)) ELSE reply]

\* ----------------------------------------------------- ImapConnector::new
\* One call made by ImapConnector::new and whether it succeeded.
Step(call, ok) == [call |-> call, ok |-> ok]

\* `let tls = TlsConnector::new()?;`
New_TlsConnector ==
    /\ ctor = "none"
    /\ \E cfg \in Configs, ok \in BOOLEAN :
          /\ config' = cfg
          /\ steps' = <<Step("TlsConnector::new", ok)>>
          /\ IF ok THEN ctor' = "tls" /\ newRet' = Unset
                   ELSE /\ ctor' = "tls_failed"
                        /\ newRet' = Err(From_native_tls_Error("native_tls"))
    /\ UNCHANGED nonImapVars
    /\ UNCHANGED <<srv, auth, link, selected, borrow, pc, args, uids, trace, last,
                   prev>>

\* `let client = imap::connect(config.get_addr(), &config.host, &tls)?;`
New_Connect ==
    /\ ctor = "tls"
    /\ \E out \in {"ok", "Io", "TlsHandshake"} :
          /\ steps' = Append(steps, Step("imap::connect", out = "ok"))
          /\ IF out = "ok" THEN ctor' = "client" /\ link' = "up" /\ newRet' = Unset
             ELSE /\ ctor' = "connect_failed"
                  /\ link' = "none"
                  /\ newRet' = Err(From_imap_Error(out))
    /\ UNCHANGED nonImapVars
    /\ UNCHANGED <<srv, config, auth, selected, borrow, pc, args, uids, trace, last,
                   prev>>

ServerLogin(cfg) == IF cfg.password = "secret" THEN SrvOk("") ELSE SrvErr("No")

\* Mutant: the session is kept whatever the login returned,
\* `.login(..).unwrap_or_else(|res| res.1.into_session())`.
New_Login_Unchecked ==
    /\ ctor = "client"
    /\ \E o \in Outcomes(ServerLogin(config)) :
          /\ steps' = Append(steps, Step("client.login", o.reply.tag = "Ok"))
          /\ auth' = (o.reply.tag = "Ok")
          /\ ctor' = "built"
          /\ link' = o.link
          /\ newRet' = Unset
    /\ UNCHANGED nonImapVars
    /\ UNCHANGED <<srv, config, selected, borrow, pc, args, uids, trace, last, prev>>

\* `client.login(&config.login, &config.password).map_err(|res| res.0)?`
New_Login ==
    /\ ctor = "client"
    /\ \E o \in Outcomes(ServerLogin(config)) :
          /\ steps' = Append(steps, Step("client.login", o.reply.tag = "Ok"))
          /\ IF o.reply.tag = "Ok"
             THEN ctor' = "built" /\ link' = o.link /\ newRet' = Unset /\ auth' = TRUE
             ELSE /\ ctor' = "login_failed"
                  /\ link' = "none"
                  /\ newRet' = Err(From_imap_Error(o.reply.kind))
                  /\ auth' = FALSE
    /\ UNCHANGED nonImapVars
    /\ UNCHANGED <<srv, config, selected, borrow, pc, args, uids, trace, last, prev>>

FailedNew == {"tls_failed", "connect_failed", "login_failed"}

\* The caller of a failed ImapConnector::new drops the error.
DropNewError ==
    /\ ctor \in FailedNew
    /\ ctor' = "none"
    /\ newRet' = Unset
    /\ steps' = <<>>
    /\ config' = NoConfig
    /\ UNCHANGED nonImapVars
    /\ UNCHANGED <<srv, auth, link, selected, borrow, pc, args, uids, trace, last,
                   prev>>

\* The connector is dropped while no operation runs on it or borrows it.
DropConnector ==
    /\ ctor = "built"
    /\ borrow = NoCaller
    /\ \A c \in Callers : pc[c] = "idle"
    /\ ctor' = "none"
    /\ steps' = <<>>
    /\ auth' = FALSE
    /\ link' = "none"
    /\ selected' = NoMbox
    /\ config' = NoConfig
    /\ last' = NoLast
    /\ prev' = "none"
    /\ UNCHANGED nonImapVars
    /\ UNCHANGED <<srv, newRet, borrow, pc, args, uids, trace>>

\* ------------------------------------------------------------- operations
\* Mutant: `&self`, any caller enters at any time.
BorrowShared(c) == TRUE

\* `&mut self`: a caller enters an operation only while nobody borrows the
\* connector.
BorrowMut(c) == borrow = NoCaller

DomainErrors == {"ReadEmailNotFoundError", "ReadEmailEmptyPartError"}

\* What is remembered of an operation when the next one begins: which of the
\* two domain errors it returned, if any.
Outcome(r) ==
    IF r.tag = "Err" /\ r.err.variant \in DomainErrors THEN r.err.variant ELSE "none"

Begin(c, a, first) ==
    /\ ctor = "built"
    /\ pc[c] = "idle"
    /\ BorrowMut(c)
    /\ borrow' = c
    /\ pc' = [pc EXCEPT ![c] = first]
    /\ args' = [args EXCEPT ![c] = a]
    /\ last' = NoLast
    /\ prev' = Outcome(last.ret)
    /\ UNCHANGED nonImapVars
    /\ UNCHANGED <<srv, config, ctor, newRet, steps, auth, link, selected, uids, trace>>

Call_list_mailboxes(c) ==
    Begin(c, [NoArgs EXCEPT !.op = "list_mailboxes"], "list")

Call_read_emails(c) ==
    \E mbox \in Mboxes, query \in Queries :
        Begin(c, [NoArgs EXCEPT !.op = "read_emails", !.mbox = mbox,
                                !.query = query], "select")

Call_read_email_body(c) ==
    \E mbox \in Mboxes, uid \in UidArgs, mime \in Mimes :
        Begin(c, [NoArgs EXCEPT !.op = "read_email_body", !.mbox = mbox,
                                !.uid = uid, !.mime = mime], "select")

\* The operation of caller c returns `r` after the exchange `x`.  A
\* Vec<Mailbox<'_>> or Vec<Email<'_>> keeps the borrow of the connector alive
\* until the caller drops it; a String does not.
Return(c, r, x) ==
    /\ last' = [by |-> c, args |-> args[c], uids |-> uids[c],
                trace |-> Append(trace[c], x), ret |-> r]
    /\ pc' = [pc EXCEPT ![c] =
                 IF args[c].op = "read_email_body" THEN "idle" ELSE "holding"]
    /\ borrow' = IF args[c].op = "read_email_body" /\ borrow = c
                 THEN NoCaller ELSE borrow
    /\ args' = [args EXCEPT ![c] = NoArgs]
    /\ uids' = [uids EXCEPT ![c] = <<>>]
    /\ trace' = [trace EXCEPT ![c] = <<>>]

list_mailboxes(c) ==
    /\ pc[c] = "list"
    /\ \E o \in Outcomes(ServerList(srv)) :
          /\ link' = o.link
          /\ Return(c, list_mailboxes_result(o.reply),
                    Xchg("LIST", "*", selected, o.reply))
    /\ UNCHANGED nonImapVars
    /\ UNCHANGED <<srv, config, ctor, newRet, steps, auth, selected, prev>>

\* Mutant: the SELECT is issued only while the session has no mailbox
\* selected, `if self.selected.is_none() { self.sess.select(mbox)?; }`.
select_SkipIfSelected(c) ==
    /\ pc[c] = "select"
    /\ IF selected # NoMbox
       THEN /\ pc' = [pc EXCEPT ![c] =
                        IF args[c].op = "read_emails" THEN "search" ELSE "fetch"]
            /\ UNCHANGED <<link, selected, borrow, args, uids, trace, last>>
       ELSE \E o \in Outcomes(ServerSelect(srv, args[c].mbox)) :
              /\ link' = o.link
              /\ IF o.reply.tag = "Ok"
                 THEN /\ selected' = args[c].mbox
                      /\ pc' = [pc EXCEPT ![c] =
                                   IF args[c].op = "read_emails" THEN "search" ELSE "fetch"]
                      /\ trace' = [trace EXCEPT ![c] =
                                      Append(@, Xchg("SELECT", args[c].mbox, selected, o.reply))]
                      /\ UNCHANGED <<borrow, args, uids, last>>
                 ELSE /\ selected' = IF o.reply.kind = "No" THEN NoMbox ELSE selected
                      /\ Return(c, Err(From_imap_Error(o.reply.kind)),
                                Xchg("SELECT", args[c].mbox, selected, o.reply))
    /\ UNCHANGED nonImapVars
    /\ UNCHANGED <<srv, config, ctor, newRet, steps, auth, prev>>

\* `self.sess.select(mbox)?;` of read_emails and of read_email_body
select(c) ==
    /\ pc[c] = "select"
    /\ \E o \in Outcomes(ServerSelect(srv, args[c].mbox)) :
          /\ link' = o.link
          /\ IF o.reply.tag = "Ok"
             THEN /\ selected' = args[c].mbox
                  /\ pc' = [pc EXCEPT ![c] =
                               IF args[c].op = "read_emails" THEN "search" ELSE "fetch"]
                  /\ trace' = [trace EXCEPT ![c] =
                                  Append(@, Xchg("SELECT", args[c].mbox, selected, o.reply))]
                  /\ UNCHANGED <<borrow, args, uids, last>>
             ELSE /\ selected' = IF o.reply.kind = "No" THEN NoMbox ELSE selected
                  /\ Return(c, Err(From_imap_Error(o.reply.kind)),
                            Xchg("SELECT", args[c].mbox, selected, o.reply))
    /\ UNCHANGED nonImapVars
    /\ UNCHANGED <<srv, config, ctor, newRet, steps, auth, prev>>

\* Mutant: a failed search counts as a search that matched nothing,
\* `self.sess.uid_search(query).unwrap_or_default()`.
uid_search_Swallowed(c) ==
    /\ pc[c] = "search"
    /\ \E o \in Outcomes(ServerSearch(srv, selected, args[c].query)) :
          /\ link' = o.link
          /\ \E order \in HashSetIter(IF o.reply.tag = "Ok" THEN o.reply.val ELSE <<>>) :
                uids' = [uids EXCEPT ![c] = UidStrings(order)]
          /\ pc' = [pc EXCEPT ![c] = "fetch"]
          /\ trace' = [trace EXCEPT ![c] =
                          Append(@, Xchg("UID SEARCH", args[c].query, selected, o.reply))]
          /\ UNCHANGED <<borrow, args, last>>
    /\ UNCHANGED nonImapVars
    /\ UNCHANGED <<srv, config, ctor, newRet, steps, auth, selected, prev>>

\* `self.sess.uid_search(query)?.iter().map(|n| n.to_string()).collect()`
uid_search(c) ==
    /\ pc[c] = "search"
    /\ \E o \in Outcomes(ServerSearch(srv, selected, args[c].query)) :
          /\ link' = o.link
          /\ IF o.reply.tag = "Ok"
             THEN /\ \E order \in HashSetIter(o.reply.val) :
                        uids' = [uids EXCEPT ![c] = UidStrings(order)]
                  /\ pc' = [pc EXCEPT ![c] = "fetch"]
                  /\ trace' = [trace EXCEPT ![c] =
                                  Append(@, Xchg("UID SEARCH", args[c].query, selected, o.reply))]
                  /\ UNCHANGED <<borrow, args, last>>
             ELSE Return(c, Err(From_imap_Error(o.reply.kind)),
                         Xchg("UID SEARCH", args[c].query, selected, o.reply))
    /\ UNCHANGED nonImapVars
    /\ UNCHANGED <<srv, config, ctor, newRet, steps, auth, selected, prev>>

\* `self.sess.uid_fetch(uids[..20.min(uids.len())].join(","), "(UID ..)")?` and
\* the map over the responses.
uid_fetch_summaries(c) ==
    /\ pc[c] = "fetch"
    /\ args[c].op = "read_emails"
    /\ \E reply \in uid_fetch_replies(srv, selected, UidSetArg(uids[c]),
                                      "(UID ENVELOPE INTERNALDATE)") :
       \E o \in Outcomes(reply) :
          /\ link' = o.link
          /\ Return(c, read_emails_result(o.reply),
                    Xchg("UID FETCH", UidSetArg(uids[c]), selected, o.reply))
    /\ UNCHANGED nonImapVars
    /\ UNCHANGED <<srv, config, ctor, newRet, steps, auth, selected, prev>>

\* `self.sess.uid_fetch(uid, "BODY[]")?.first()` and the match on it.
uid_fetch_body(c) ==
    /\ pc[c] = "fetch"
    /\ args[c].op = "read_email_body"
    /\ \E reply \in uid_fetch_replies(srv, selected, args[c].uid, "BODY[]") :
       \E o \in Outcomes(reply) :
          /\ link' = o.link
          /\ Return(c, read_email_body_result(o.reply, args[c].uid, args[c].mime),
                    Xchg("UID FETCH", args[c].uid, selected, o.reply))
    /\ UNCHANGED nonImapVars
    /\ UNCHANGED <<srv, config, ctor, newRet, steps, auth, selected, prev>>

\* The caller drops the Vec an operation returned, and with it the borrow.
DropResult(c) ==
    /\ pc[c] = "holding"
    /\ pc' = [pc EXCEPT ![c] = "idle"]
    /\ borrow' = IF borrow = c THEN NoCaller ELSE borrow
    /\ UNCHANGED nonImapVars
    /\ UNCHANGED <<srv, config, ctor, newRet, steps, auth, link, selected, args, uids, trace,
                   last, prev>>

ImapNext ==
    \/ New_TlsConnector
    \/ New_Connect
    \/ New_Login
    \/ DropNewError
    \/ DropConnector
    \/ \E c \in Callers : Call_list_mailboxes(c)
    \/ \E c \in Callers : Call_read_emails(c)
    \/ \E c \in Callers : Call_read_email_body(c)
    \/ \E c \in Callers : list_mailboxes(c)
    \/ \E c \in Callers : select(c)
    \/ \E c \in Callers : uid_search(c)
    \/ \E c \in Callers : uid_fetch_summaries(c)
    \/ \E c \in Callers : uid_fetch_body(c)
    \/ \E c \in Callers : DropResult(c)

Init == ImapInit /\ SendOff /\ WizardOff /\ SyncOff

Spec == Init /\ [][ImapNext]_vars

\* -------------------------------------------- MessageSendCommand::execute
\* The backend kinds that exist in a build: BackendKind::Smtp and
\* BackendKind::Sendmail only with their cargo feature.
BackendKinds(f) ==
    {"Imap"} \cup (IF f.smtp THEN {"Smtp"} ELSE {})
             \cup (IF f.sendmail THEN {"Sendmail"} ELSE {})

\* The account configurations of a build: the kind assigned to sending
\* messages ("None": no kind assigned) and the backend sections present.
Accounts(f) ==
    {[exists |-> e, kind |-> k, smtp |-> sm, sendmail |-> sd] :
        e \in BOOLEAN, k \in BackendKinds(f) \cup {"None"},
        sm \in (IF f.smtp THEN BOOLEAN ELSE {FALSE}),
        sd \in (IF f.sendmail THEN BOOLEAN ELSE {FALSE})}

StdinLines == {<<>>, <<"l1">>, <<"l1", "l2">>}

SendInit ==
    /\ features \in [smtp : BOOLEAN, sendmail : BOOLEAN]
    /\ account \in Accounts(features)
    /\ sendPc = "start"
    /\ ctx = NoCtx
    /\ msg = <<>>
    /\ sendRet = Unset
    /\ printed = <<>>
    /\ outbox = <<>>

\* TomlAccountConfig::send_message_kind: the kind the account assigns to
\* sending messages, if any.
send_message_kind(acc) == acc.kind

\* Mutant: the arms of the match are swapped, Smtp wires the sendmail sender
\* and Sendmail the SMTP sender.
hook_Swapped(kind, f) ==
    IF kind = "Smtp" /\ f.smtp /\ f.sendmail THEN "Sendmail"
    ELSE IF kind = "Sendmail" /\ f.sendmail /\ f.smtp THEN "Smtp"
    ELSE IF kind = "Smtp" /\ f.smtp THEN "Smtp"
    ELSE IF kind = "Sendmail" /\ f.sendmail THEN "Sendmail"
    ELSE "None"

\* The closure handed to Backend::new: which sender it asks the builder to
\* wire, by the match on send_message_kind (arms exist only with their cargo
\* feature).
hook(kind, f) ==
    IF kind = "Smtp" /\ f.smtp THEN "Smtp"
    ELSE IF kind = "Sendmail" /\ f.sendmail THEN "Sendmail"
    ELSE "None"

\* `ctx.smtp.as_ref().and_then(SendMessageSmtp::new)` and
\* `ctx.sendmail.as_ref().and_then(SendMessageSendmail::new)`: the sender the
\* wired closure yields from the built context.
set_send_message(wired, built) ==
    IF wired = "Smtp" /\ built.smtp THEN "Smtp"
    ELSE IF wired = "Sendmail" /\ built.sendmail THEN "Sendmail"
    ELSE "None"

\* Backend::new: builds the backend of the requested kind from its section
\* of the account (a kind without its section is a configuration mismatch),
\* then lets the wired closure pick the sender.
Backend_new(acc, kind, wired) ==
    IF kind = "Smtp" /\ ~acc.smtp THEN Err("ConfigurationMismatch")
    ELSE IF kind = "Sendmail" /\ ~acc.sendmail THEN Err("ConfigurationMismatch")
    ELSE LET built == [smtp |-> kind = "Smtp", sendmail |-> kind = "Sendmail",
                       send_message |-> "None"]
         IN  Ok([built EXCEPT !.send_message = set_send_message(wired, built)])

\* Backend::send_message: forwards to the wired sender; without one the
\* capability is unavailable.
Backend_send_message(c, delivered) ==
    IF c.send_message = "None" THEN Err("CapabilityUnavailable")
    ELSE IF delivered THEN Ok(c.send_message)
    ELSE Err("SendFailed")

\* `config.clone().into_account_configs(..)?`
execute_into_account_configs ==
    /\ sendPc = "start"
    /\ IF account.exists
       THEN sendPc' = "configs" /\ sendRet' = Unset
       ELSE sendPc' = "failed" /\ sendRet' = Err("AccountNotFound")
    /\ UNCHANGED <<features, account, ctx, msg, printed, outbox>>
    /\ UNCHANGED nonSendVars

\* Mutant: a failed build is not returned, `.await.unwrap_or_default()`: the
\* command goes on with a context that has nothing wired.
execute_Backend_new_Lenient ==
    /\ sendPc = "configs"
    /\ LET kind == send_message_kind(account)
           r    == Backend_new(account, kind, hook(kind, features))
       IN  /\ sendPc' = "built"
           /\ ctx' = IF r.tag = "Ok" THEN r.val ELSE NoCtx
           /\ sendRet' = Unset
    /\ UNCHANGED <<features, account, msg, printed, outbox>>
    /\ UNCHANGED nonSendVars

\* `let send_message_kind = ..; let backend = Backend::new(.., |builder| ..).await?;`
execute_Backend_new ==
    /\ sendPc = "configs"
    /\ LET kind == send_message_kind(account)
           r    == Backend_new(account, kind, hook(kind, features))
       IN  IF r.tag = "Ok"
           THEN sendPc' = "built" /\ ctx' = r.val /\ sendRet' = Unset
           ELSE sendPc' = "failed" /\ ctx' = ctx /\ sendRet' = r
    /\ UNCHANGED <<features, account, msg, printed, outbox>>
    /\ UNCHANGED nonSendVars

\* `let msg = if io::stdin().is_terminal() { self.message.raw() } else { .. }`
execute_read_msg ==
    /\ sendPc = "built"
    /\ \E terminal \in BOOLEAN, lines \in StdinLines :
          msg' = IF terminal THEN <<"raw">> ELSE Join([i \in 1..Len(lines) |-> <<lines[i]>>], "\r\n")
    /\ sendPc' = "msg"
    /\ UNCHANGED <<features, account, ctx, sendRet, printed, outbox>>
    /\ UNCHANGED nonSendVars

\* Mutant: the result of send_message is ignored, `let _ = ..await;`.
execute_send_message_Ignored ==
    /\ sendPc = "msg"
    /\ \E delivered \in BOOLEAN :
          LET r == Backend_send_message(ctx, delivered)
          IN  /\ outbox' = IF r.tag = "Ok" THEN Append(outbox, <<r.val, msg>>) ELSE outbox
              /\ sendPc' = "sent" /\ sendRet' = Unset
    /\ UNCHANGED <<features, account, ctx, msg, printed>>
    /\ UNCHANGED nonSendVars

\* `backend.send_message(msg.as_bytes()).await?;`
execute_send_message ==
    /\ sendPc = "msg"
    /\ \E delivered \in BOOLEAN :
          LET r == Backend_send_message(ctx, delivered)
          IN  /\ outbox' = IF r.tag = "Ok" THEN Append(outbox, <<r.val, msg>>) ELSE outbox
              /\ IF r.tag = "Ok"
                 THEN sendPc' = "sent" /\ sendRet' = Unset
                 ELSE sendPc' = "failed" /\ sendRet' = r
    /\ UNCHANGED <<features, account, ctx, msg, printed>>
    /\ UNCHANGED nonSendVars

\* `printer.print("Message successfully sent!")`
execute_print ==
    /\ sendPc = "sent"
    /\ \E ok \in BOOLEAN :
          IF ok
          THEN /\ printed' = Append(printed, "Message successfully sent!")
               /\ sendPc' = "done"
               /\ sendRet' = Ok("")
          ELSE /\ printed' = printed
               /\ sendPc' = "failed"
               /\ sendRet' = Err("PrinterError")
    /\ UNCHANGED <<features, account, ctx, msg, outbox>>
    /\ UNCHANGED nonSendVars

SendNext ==
    \/ execute_into_account_configs
    \/ execute_Backend_new
    \/ execute_read_msg
    \/ execute_send_message
    \/ execute_print

ImapOff == ImapInit /\ srv = [list |-> <<>>, inbox |-> 0, seen |-> 0]

InitSend == SendInit /\ ImapOff /\ WizardOff /\ SyncOff

SpecSend == InitSend /\ [][SendNext]_vars

\* ------------------------------------------------------- backend::wizard
Features == {"imap", "maildir", "notmuch", "smtp", "sendmail"}

\* The cargo feature that gates a backend kind.
FeatureOf(kind) ==
    CASE kind = "Imap" -> "imap"
      [] kind = "Maildir" -> "maildir"
      [] kind = "Notmuch" -> "notmuch"
      [] kind = "Smtp" -> "smtp"
      [] kind = "Sendmail" -> "sendmail"

\* The entries of a `&[BackendKind]` constant that the build keeps: those
\* whose `#[cfg(feature = ..)]` holds, in the order written.
Gated(kinds, f) ==
    LET Kept(kind) == FeatureOf(kind) \in f
    IN  SelectSeq(kinds, Kept)

DEFAULT_BACKEND_KINDS(f) == Gated(<<"Imap", "Maildir", "Notmuch">>, f)

SEND_MESSAGE_BACKEND_KINDS(f) == Gated(<<"Smtp", "Sendmail">>, f)

\* `Select::with_theme(..).items(items).default(0).interact_opt()`: an I/O
\* error (always, when there is nothing to choose from), the prompt left
\* without a choice, or the index of the chosen item.
interact_opt(items) ==
    {Err("Io")}
    \cup (IF Len(items) = 0 THEN {}
          ELSE {Ok(None)} \cup {Ok(Some(idx)) : idx \in 0..(Len(items) - 1)})

\* `.and_then(|idx| KINDS.get(idx).map(Clone::clone))`
and_then_get(opt, kinds) ==
    IF opt.some /\ opt.val < Len(kinds) THEN Some(kinds[opt.val + 1]) ELSE None

\* What the user did at the prompt: the item shown at the chosen index.
Picked(opt, items) == IF opt.some THEN items[opt.val + 1] ELSE "cancel"

\* BackendConfig: one variant per backend kind.
BackendConfig(kind) == [variant |-> kind]

\* imap::wizard::configure, maildir::wizard::configure, ..: the wizard of one
\* kind yields the configuration of that kind, or fails.
kind_wizard(kind) == {Ok(BackendConfig(kind)), Err("WizardError")}

\* The match of configure: the kind whose wizard the matching arm runs
\* ("None": the `_` arm).
configure_arm(kind, f) ==
    IF ~kind.some THEN "None"
    ELSE IF "imap" \in f /\ kind.val = "Imap" THEN "Imap"
    ELSE IF "maildir" \in f /\ kind.val = "Maildir" THEN "Maildir"
    ELSE IF "notmuch" \in f /\ kind.val = "Notmuch" THEN "Notmuch"
    ELSE "None"

\* Mutant: the arms call each other's wizard, Smtp the sendmail wizard and
\* Sendmail the smtp wizard.
configure_sender_arm_Swapped(kind, f) ==
    IF ~kind.some THEN "None"
    ELSE IF "smtp" \in f /\ kind.val = "Smtp" THEN "Sendmail"
    ELSE IF "sendmail" \in f /\ kind.val = "Sendmail" THEN "Smtp"
    ELSE "None"

\* The match of configure_sender.
configure_sender_arm(kind, f) ==
    IF ~kind.some THEN "None"
    ELSE IF "smtp" \in f /\ kind.val = "Smtp" THEN "Smtp"
    ELSE IF "sendmail" \in f /\ kind.val = "Sendmail" THEN "Sendmail"
    ELSE "None"

WizardInit ==
    /\ wizFeatures \in SUBSET Features
    /\ wizFn \in {"configure", "configure_sender"}
    /\ wizPc = "start"
    /\ wizPick = "none"
    /\ wizKind = None
    /\ wizRan = <<>>
    /\ wizRet = Unset

\* `let kind = Select::..interact_opt()?.and_then(..);` over `kinds`
Prompt(kinds) ==
    \E r \in interact_opt(kinds) :
        IF r.tag = "Err"
        THEN /\ wizPick' = "error"
             /\ wizKind' = wizKind
             /\ wizRet' = r
             /\ wizPc' = "done"
        ELSE /\ wizPick' = Picked(r.val, kinds)
             /\ wizKind' = and_then_get(r.val, kinds)
             /\ wizRet' = wizRet
             /\ wizPc' = "match"

\* `let config = match kind { .. }; Ok(config)` with the arm `arm`
Match(arm) ==
    /\ IF arm = "None"
       THEN wizRan' = wizRan /\ wizRet' = Ok(None)
       ELSE \E r \in kind_wizard(arm) :
               /\ wizRan' = Append(wizRan, arm)
               /\ wizRet' = IF r.tag = "Ok" THEN Ok(Some(r.val)) ELSE r
    /\ wizPc' = "done"

configure_interact_opt ==
    /\ wizFn = "configure"
    /\ wizPc = "start"
    /\ Prompt(DEFAULT_BACKEND_KINDS(wizFeatures))
    /\ UNCHANGED <<wizFeatures, wizFn, wizRan>>
    /\ UNCHANGED nonWizardVars

configure_match ==
    /\ wizFn = "configure"
    /\ wizPc = "match"
    /\ Match(configure_arm(wizKind, wizFeatures))
    /\ UNCHANGED <<wizFeatures, wizFn, wizPick, wizKind>>
    /\ UNCHANGED nonWizardVars

configure_sender_interact_opt ==
    /\ wizFn = "configure_sender"
    /\ wizPc = "start"
    /\ Prompt(SEND_MESSAGE_BACKEND_KINDS(wizFeatures))
    /\ UNCHANGED <<wizFeatures, wizFn, wizRan>>
    /\ UNCHANGED nonWizardVars

configure_sender_match ==
    /\ wizFn = "configure_sender"
    /\ wizPc = "match"
    /\ Match(configure_sender_arm(wizKind, wizFeatures))
    /\ UNCHANGED <<wizFeatures, wizFn, wizPick, wizKind>>
    /\ UNCHANGED nonWizardVars

WizardNext ==
    \/ configure_interact_opt
    \/ configure_match
    \/ configure_sender_interact_opt
    \/ configure_sender_match

InitWizard == WizardInit /\ ImapOff /\ SendOff /\ SyncOff

SpecWizard == InitWizard /\ [][WizardNext]_vars

\* -------------------------------------------------- account::args::matches
FolderNames == {"INBOX", "Sent"}

\* The matches of a subcommand of `account` ("none": no subcommand), with
\* the arguments of the other subcommands at their defaults.
SubMatches(sub) ==
    [sub |-> sub, reset |-> FALSE, max_width |-> None, dry_run |-> FALSE,
     include |-> {}, exclude |-> {}, all |-> FALSE, source |-> None]

\* The argument matches the command line parser can hand to `matches`.
ArgMatches ==
    {NoMatches, [account |-> Some(SubMatches("none"))]}
    \cup {[account |-> Some([SubMatches("configure") EXCEPT !.reset = r])] :
             r \in BOOLEAN}
    \cup {[account |-> Some([SubMatches("list") EXCEPT !.max_width = w])] :
             w \in {None, Some(80)}}
    \cup {[account |-> Some([SubMatches("sync") EXCEPT
                                !.dry_run = d, !.include = i, !.exclude = e,
                                !.all = a, !.source = g])] :
             d \in BOOLEAN, i \in SUBSET FolderNames, e \in SUBSET FolderNames,
             a \in BOOLEAN, g \in {None} \cup {Some(f) : f \in FolderNames}}

\* `m.subcommand_matches(name)`
subcommand_matches(m, name) == IF m.sub = name THEN Some(m) ELSE None

parse_reset_flag(m) == m.reset

parse_max_width(m) == m.max_width

parse_dry_run_arg(m) == m.dry_run

parse_include_arg(m) == m.include

parse_exclude_arg(m) == m.exclude

parse_all_arg(m) == m.all

parse_global_source_arg(m) == m.source

Include(folders) == [strategy |-> "Include", folders |-> folders]

Exclude(folders) == [strategy |-> "Exclude", folders |-> folders]

All == [strategy |-> "All", folders |-> {}]

\* Mutant: the exclude set is looked at before the include set.
folders_strategy_ExcludeFirst(m) ==
    LET include == parse_include_arg(m)
        exclude == parse_exclude_arg(m)
        folder  == parse_global_source_arg(m)
    IN  IF folder.some THEN Some(Include({folder.val}))
        ELSE IF exclude # {} THEN Some(Exclude(exclude))
        ELSE IF include # {} THEN Some(Include(include))
        ELSE IF parse_all_arg(m) THEN Some(All)
        ELSE None

\* `let folders_strategy = if let Some(folder) = .. { .. } else if .. ;`
folders_strategy(m) ==
    LET include == parse_include_arg(m)
        exclude == parse_exclude_arg(m)
        folder  == parse_global_source_arg(m)
    IN  IF folder.some THEN Some(Include({folder.val}))
        ELSE IF include # {} THEN Some(Include(include))
        ELSE IF exclude # {} THEN Some(Exclude(exclude))
        ELSE IF parse_all_arg(m) THEN Some(All)
        ELSE None

Cmd_Configure(reset) == [cmd |-> "Configure", reset |-> reset]

Cmd_List(max_table_width) == [cmd |-> "List", max_table_width |-> max_table_width]

Cmd_Sync(strategy, dry_run) == [cmd |-> "Sync", strategy |-> strategy, dry_run |-> dry_run]

\* The value of `cmd` in `matches`.
matches_cmd(m) ==
    IF ~m.account.some THEN None
    ELSE LET a == m.account.val
         IN  IF subcommand_matches(a, "configure").some
             THEN Some(Cmd_Configure(parse_reset_flag(a)))
             ELSE IF subcommand_matches(a, "list").some
             THEN Some(Cmd_List(parse_max_width(a)))
             ELSE IF subcommand_matches(a, "sync").some
             THEN Some(Cmd_Sync(folders_strategy(a), parse_dry_run_arg(a)))
             ELSE None

SyncInit ==
    /\ syncArgs \in ArgMatches
    /\ syncPc = "start"
    /\ syncCmd = Unset

\* `pub fn matches(m: &ArgMatches) -> Result<Option<Cmd>>`
matches ==
    /\ syncPc = "start"
    /\ syncCmd' = Ok(matches_cmd(syncArgs))
    /\ syncPc' = "done"
    /\ UNCHANGED syncArgs
    /\ UNCHANGED nonSyncVars

SyncNext == matches

InitSync == SyncInit /\ ImapOff /\ SendOff /\ WizardOff

SpecSync == InitSync /\ [][SyncNext]_vars

\* ------------------------------------------------------------------ claims
\* The UIDs that the text of a UID set names.
NamedUids(arg) == IF Len(arg) = 0 THEN {} ELSE ParseUidSet(arg)

\* The operation that returned last is `op` and it issued at least n exchanges.
Returned(op, n) == last.args.op = op /\ Len(last.trace) >= n

\* No exchange of the operation that returned last met a broken stream.
NoIoFailure ==
    \A i \in 1..Len(last.trace) :
        ~(last.trace[i].reply.tag = "Err" /\ last.trace[i].reply.kind = "Io")

\* The UIDs the server's SEARCH response listed, in the server's order.
Found == last.trace[2].reply.val

SearchOk == Returned("read_emails", 2) /\ last.trace[2].reply.tag = "Ok"

ReturnedUids == [i \in 1..Len(last.ret.val) |-> last.ret.val[i].uid]

\* C1: read_emails returns at most 20 summaries and its UID FETCH names at
\* most 20 UIDs, however many UIDs the search matched; when fewer than 20
\* matched, all of them are named in the UID FETCH and all are returned.
C1_AtMostPageSize ==
    /\ Returned("read_emails", 3) =>
          /\ Cardinality(NamedUids(last.trace[3].arg)) <= PageSize
          /\ Len(Found) < PageSize => NamedUids(last.trace[3].arg) = Range(Found)
    /\ Returned("read_emails", 1) /\ last.ret.tag = "Ok" =>
          /\ Len(last.ret.val) <= PageSize
          /\ Len(Found) < PageSize =>
                /\ Len(last.ret.val) = Len(Found)
                /\ Range(ReturnedUids) = {to_string(Found[i]) : i \in 1..Len(Found)}

\* More UIDs matched than the cap, and exactly the cap came back.
C1_Witness ==
    /\ SearchOk
    /\ last.ret.tag = "Ok"
    /\ Len(Found) > PageSize
    /\ Len(last.ret.val) = PageSize

\* C2: when the search of read_emails matches no UID (and the stream does not
\* break), read_emails returns the empty sequence, not an error.
C2_EmptySearchReturnsEmpty ==
    SearchOk /\ Len(Found) = 0 /\ NoIoFailure =>
        last.ret.tag = "Ok" /\ Len(last.ret.val) = 0

\* C3: when more than 20 UIDs match, the UIDs named in the UID FETCH are the
\* first 20 of the server's search result, and the summaries returned are
\* those 20 in the order of the search result.
C3_FirstPageInServerOrder ==
    SearchOk /\ Len(Found) > PageSize /\ Len(last.trace) >= 3 =>
        /\ NamedUids(last.trace[3].arg) = {Found[i] : i \in 1..PageSize}
        /\ last.ret.tag = "Ok" =>
              ReturnedUids = [i \in 1..PageSize |-> to_string(Found[i])]

\* The message the server holds under the uid argument of the read_email_body
\* that returned last, in the mailbox of that call.
TargetExists ==
    /\ ValidUidSet(last.args.uid)
    /\ ParseNat(last.args.uid) \in Range(MsgsOf(srv, last.args.mbox))

TargetBody == BodyOf(last.args.mbox, ParseNat(last.args.uid))

FetchOk == Returned("read_email_body", 2) /\ last.trace[2].reply.tag = "Ok"

\* C4: read_email_body for a uid for which the server returns no fetch result
\* fails with "email not found", carrying exactly the uid passed in.
C4_NotFoundCarriesUid ==
    FetchOk /\ last.trace[2].reply.val = 0 =>
        /\ last.ret.tag = "Err"
        /\ last.ret.err.variant = "ReadEmailNotFoundError"
        /\ last.ret.err.payload = <<last.args.uid>>

\* The scenario of the specification: uid "99" does not exist in INBOX.
C4_Witness ==
    /\ FetchOk
    /\ last.args.mbox = "INBOX"
    /\ last.args.uid = <<"9", "9">>
    /\ ~TargetExists
    /\ last.ret.tag = "Err"
    /\ last.ret.err.variant = "ReadEmailNotFoundError"

\* The message exists, parses, and has no part of the requested mime type.
LacksMime ==
    /\ TargetExists
    /\ ~TargetBody.absent
    /\ TargetBody.bytes.valid
    /\ \A i \in 1..Len(TargetBody.bytes.parts) :
          TargetBody.bytes.parts[i].mime # last.args.mime

\* C5: read_email_body for a uid that exists and parses but has no text part
\* of the requested mime type fails with "empty part", carrying the uid and
\* the mime type; the error is not "email not found".
C5_EmptyPartCarriesUidAndMime ==
    FetchOk /\ LacksMime =>
        /\ last.ret.tag = "Err"
        /\ last.ret.err.variant = "ReadEmailEmptyPartError"
        /\ last.ret.err.variant # "ReadEmailNotFoundError"
        /\ last.ret.err.payload = <<last.args.uid, last.args.mime>>

\* The scenario of the specification: uid "2" of INBOX has only an HTML part.
C5_Witness ==
    /\ FetchOk
    /\ LacksMime
    /\ last.args.mbox = "INBOX"
    /\ last.args.uid = <<"2">>
    /\ last.args.mime = "text/plain"
    /\ last.ret.tag = "Err"

\* C6: list_mailboxes returns one Mailbox per raw listing entry of the server,
\* in the server's order; on a server without mailboxes it returns the empty
\* sequence, not an error (the stream not breaking).
C6_ListPassThrough ==
    Returned("list_mailboxes", 1) /\ NoIoFailure =>
        /\ last.ret.tag = "Ok"
        /\ Len(last.ret.val) = Len(srv.list)
        /\ \A i \in 1..Len(srv.list) : last.ret.val[i].name = srv.list[i]

\* A listing of two mailboxes that is not in alphabetical order.
C6_Witness ==
    /\ Returned("list_mailboxes", 1)
    /\ last.ret.tag = "Ok"
    /\ Len(last.ret.val) = 2
    /\ last.ret.val[1].name = "Sent"
    /\ last.ret.val[2].name = "INBOX"

\* list_mailboxes on a server without mailboxes returned the empty sequence.
C6_WitnessEmpty ==
    /\ Returned("list_mailboxes", 1)
    /\ Len(srv.list) = 0
    /\ last.ret.tag = "Ok"
    /\ Len(last.ret.val) = 0

\* The error variants reported for a rejected login and for a protocol
\* command that the server rejects.
RejectionVariants == {From_imap_Error("No").variant, From_imap_Error("Bad").variant}

Running == {c \in Callers : pc[c] \in {"list", "select", "search", "fetch"}}

\* C8: on one connector at most one operation is between its first and its
\* last protocol exchange, and it is the operation of the caller that holds
\* the borrow of the connector.
C8_OneExchangeInFlight ==
    /\ Cardinality(Running) <= 1
    /\ \A c \in Running : borrow = c

\* One caller is between the search and the fetch of read_emails while another
\* caller is idle on a live connector and cannot enter list_mailboxes.
C8_Witness ==
    \E c, d \in Callers :
        /\ c # d
        /\ pc[c] = "fetch"
        /\ args[c].op = "read_emails"
        /\ pc[d] = "idle"
        /\ ctor = "built"
        /\ ~ENABLED Call_list_mailboxes(d)

\* C9: when read_email_body returned "email not found" or "empty part", the
\* connector exists, its stream is up, the mailbox of the call is selected
\* and nobody borrows the connector; the operation that follows starts on
\* that live session.
C9_DomainErrorsNotFatal ==
    /\ last.ret.tag = "Err" /\ last.ret.err.variant \in DomainErrors =>
          /\ ctor = "built"
          /\ link = "up"
          /\ selected = last.args.mbox
          /\ borrow = NoCaller
    /\ prev \in DomainErrors =>
          \A c \in Callers :
              pc[c] \in {"list", "select"} => ctor = "built" /\ link = "up"

\* After a domain error, the next operation on the connector succeeded.
C9_Witness ==
    /\ prev \in DomainErrors
    /\ last.ret.tag = "Ok"

\* C10: for an account that assigns no backend kind to sending messages, the
\* send command builds a context without the send-message capability, the
\* call of send_message fails with "capability unavailable" (the command
\* returns that error: it neither succeeds nor hands the message to a sender)
\* and the success message is not printed.
C10_NoKindIsCapabilityUnavailable ==
    send_message_kind(account) = "None" =>
        /\ printed = <<>>
        /\ outbox = <<>>
        /\ sendPc \in {"built", "msg"} => ctx.send_message = "None"
        /\ sendPc \notin {"start", "configs", "built", "msg"} =>
              /\ sendPc = "failed"
              /\ sendRet.tag = "Err"
              /\ account.exists => sendRet.err = "CapabilityUnavailable"

\* The command of an account without a kind for sending has returned the
\* "capability unavailable" error.
C10_Witness ==
    /\ send_message_kind(account) = "None"
    /\ account.exists
    /\ sendPc = "failed"
    /\ sendRet.tag = "Err"
    /\ sendRet.err = "CapabilityUnavailable"
    /\ Len(msg) > 0

\* The account assigns `kind` to sending messages and has no section for it.
KindWithoutSection(kind) ==
    /\ account.exists
    /\ send_message_kind(account) = kind
    /\ \/ kind = "Smtp" /\ ~account.smtp
       \/ kind = "Sendmail" /\ ~account.sendmail

Variant == IF last.ret.tag = "Err" THEN last.ret.err.variant ELSE last.ret.tag

\* The number of responses the UID FETCH of the read_email_body that returned
\* last brought back.
Fetched == last.trace[2].reply.val

\* The bytes the server holds for the target are no MIME message.
TargetMalformed == ~TargetBody.absent /\ ~TargetBody.bytes.valid

\* The target has a part of the requested mime type that holds text.
TargetHasText ==
    /\ ~TargetBody.absent
    /\ \E i \in 1..Len(TargetBody.bytes.parts) :
          /\ TargetBody.bytes.parts[i].mime = last.args.mime
          /\ Len(TargetBody.bytes.parts[i].text) > 0

\* C12: once the UID FETCH of read_email_body succeeded, exactly one of four
\* outcomes is reported, decided in this order: "email not found" exactly
\* when no response came back (whatever the server holds); a parse error
\* exactly when the fetched bytes are no MIME message (whatever mime type was
\* asked for); "empty part" only for a fetched message that parsed; success
\* only for a fetched message that parsed and has text of the requested type.
C12_ChecksInOrder ==
    FetchOk =>
        /\ Variant \in {"ReadEmailNotFoundError", "ParseEmailError",
                        "ReadEmailEmptyPartError", "Ok"}
        /\ Variant = "ReadEmailNotFoundError" <=> Fetched = 0
        /\ Fetched > 0 =>
              /\ TargetExists
              /\ Variant = "ParseEmailError" <=> TargetMalformed
              /\ Variant = "ReadEmailEmptyPartError" <=>
                    ~TargetMalformed /\ ~TargetHasText
              /\ Variant = "Ok" <=> ~TargetMalformed /\ TargetHasText

\* A message whose bytes do not parse was asked for a mime type none of its
\* parts could have: the parse error is reported, not "empty part".
C12_Witness ==
    /\ FetchOk
    /\ Fetched > 0
    /\ TargetMalformed
    /\ last.args.mime = "text/html"
    /\ Variant = "ParseEmailError"

\* C13: a response to the UID FETCH of read_email_body that has no body
\* payload is read as the empty message: the result is neither "email not
\* found" nor a protocol or parse error, it is what the parse and the
\* extraction give for an empty body, "empty part" with the uid and the mime
\* type of the call.
C13_AbsentBodyIsEmptyText ==
    FetchOk /\ Fetched > 0 /\ TargetBody.absent =>
        /\ Variant \notin {"ReadEmailNotFoundError", "CreateImapSession",
                           "ParseEmailError"}
        /\ last.ret = Err(ReadEmailEmptyPartError(last.args.uid, last.args.mime))

\* uid "5" of INBOX comes back without a body payload, and the call returned
\* "empty part".
C13_Witness ==
    /\ FetchOk
    /\ Fetched = 1
    /\ last.args.mbox = "INBOX"
    /\ last.args.uid = <<"5">>
    /\ TargetBody.absent
    /\ Variant = "ReadEmailEmptyPartError"

MailboxOps == {"read_emails", "read_email_body"}

\* The exchanges `tr` of a call on mailbox `mbox` begin with the SELECT of
\* mbox; every later exchange is a search or a fetch that follows a
\* successful SELECT and that the server evaluated against mbox.
SelectFirst(tr, mbox) ==
    Len(tr) > 0 =>
        /\ tr[1].cmd = "SELECT"
        /\ tr[1].arg = mbox
        /\ tr[1].reply.tag = "Err" => Len(tr) = 1
        /\ \A i \in 2..Len(tr) :
              /\ tr[i].cmd \in {"UID SEARCH", "UID FETCH"}
              /\ tr[i].sel = mbox

\* C14: in every read_emails and read_email_body call, running or returned,
\* the SELECT of the mailbox of the call is the first exchange, every search
\* and fetch comes after it and is evaluated against that mailbox, and a
\* call whose SELECT failed issued nothing else; a call that is about to
\* search or fetch has its own mailbox selected.
C14_SelectFirstOwnMailbox ==
    /\ \A c \in Callers :
          /\ args[c].op \in MailboxOps => SelectFirst(trace[c], args[c].mbox)
          /\ pc[c] \in {"search", "fetch"} =>
                /\ Len(trace[c]) > 0
                /\ selected = args[c].mbox
    /\ last.args.op \in MailboxOps =>
          /\ Len(last.trace) > 0
          /\ SelectFirst(last.trace, last.args.mbox)

\* A call on INBOX found the session with Sent selected by an earlier call,
\* and its search and its fetch were evaluated against INBOX.
C14_Witness ==
    /\ last.args.op = "read_emails"
    /\ last.args.mbox = "INBOX"
    /\ Len(last.trace) = 3
    /\ last.trace[1].sel = "Sent"
    /\ last.trace[2].cmd = "UID SEARCH"
    /\ last.trace[2].sel = "INBOX"
    /\ last.trace[3].cmd = "UID FETCH"
    /\ last.trace[3].sel = "INBOX"

\* The calls of ImapConnector::new, in the order of the code.
NewCalls == <<"TlsConnector::new", "imap::connect", "client.login">>

\* The calls made so far are the first calls of NewCalls, in that order, and
\* none but the last one made has failed.
InOrder ==
    /\ Len(steps) <= Len(NewCalls)
    /\ \A i \in 1..Len(steps) :
          /\ steps[i].call = NewCalls[i]
          /\ i < Len(steps) => steps[i].ok

\* C15: ImapConnector::new calls TLS setup, connect and login in that order
\* and stops at the first that fails, returning its error; a connector
\* exists only when all three succeeded, and then the server has
\* authenticated the session; an operation is entered, runs or holds a
\* result only on such a connector.
C15_ConnectorOnlyAfterLogin ==
    /\ InOrder
    /\ ctor = "built" =>
          /\ Len(steps) = 3
          /\ \A i \in 1..3 : steps[i].ok
          /\ auth
          /\ ServerLogin(config).tag = "Ok"
          /\ newRet = Unset
    /\ ctor \in FailedNew =>
          /\ ~steps[Len(steps)].ok
          /\ Len(steps) = (CASE ctor = "tls_failed" -> 1
                             [] ctor = "connect_failed" -> 2
                             [] ctor = "login_failed" -> 3)
          /\ newRet.tag = "Err"
          /\ ~auth
          /\ link = "none"
    /\ \A c \in Callers :
          pc[c] # "idle" => ctor = "built" /\ auth /\ link # "none"

\* The server rejected the login of a construction that had set TLS up and
\* connected: the construction returned an error and no operation can be
\* entered.
C15_Witness ==
    /\ ctor = "login_failed"
    /\ Len(steps) = 3
    /\ newRet = Err(From_imap_Error("No"))
    /\ \A c \in Callers : ~ENABLED Call_list_mailboxes(c)

\* The exchange failed: the server rejected the command or the stream broke.
Failed(x) == x.reply.tag = "Err"

\* No command occurs twice among the exchanges `tr`.
NoRetry(tr) == \A i, j \in 1..Len(tr) : i # j => tr[i].cmd # tr[j].cmd

\* C16: inside a connector operation no exchange follows a failed one and no
\* command is issued twice; an operation whose last exchange failed returned
\* the error of that exchange, and a read_email_body whose fetched bytes do
\* not parse returned the parse error.
C16_FailuresPropagate ==
    /\ \A c \in Callers :
          /\ \A i \in 1..Len(trace[c]) : ~Failed(trace[c][i])
          /\ NoRetry(trace[c])
    /\ last.by # NoCaller =>
          /\ Len(last.trace) > 0
          /\ \A i \in 1..(Len(last.trace) - 1) : ~Failed(last.trace[i])
          /\ NoRetry(last.trace)
          /\ Failed(last.trace[Len(last.trace)]) =>
                last.ret = Err(From_imap_Error(last.trace[Len(last.trace)].reply.kind))
    /\ FetchOk /\ Fetched > 0 /\ TargetMalformed =>
          last.ret = Err(From_MailParseError("MailParseError"))

\* The server rejected the search of a read_emails: the call returned that
\* error and issued no fetch.
C16_Witness ==
    /\ Returned("read_emails", 2)
    /\ Len(last.trace) = 2
    /\ last.trace[2].cmd = "UID SEARCH"
    /\ last.trace[2].reply = SrvErr("Bad")
    /\ last.ret = Err(From_imap_Error("Bad"))

\* This step issues a protocol command on the session: an exchange is added
\* to the exchanges of a running operation, or an operation returns after
\* its last exchange.
IssuesCommand ==
    \/ \E c \in Callers : Len(trace'[c]) > Len(trace[c])
    \/ last' # last /\ last'.by # NoCaller

\* C17: once an operation on the connector has failed with a transport error
\* (the stream of the session is down), no further protocol command is
\* issued on that session.
C17_BrokenSessionDiscarded == [][link = "down" => ~IssuesCommand]_vars

SendingKinds == {"Smtp", "Sendmail"}

\* C18: the send command resolves the kind, builds the context, sends and
\* prints in that order.  A built context of an account that assigns Smtp
\* or Sendmail has the sender of that kind wired and no other; a message is
\* handed only to the sender of the assigned kind, once, and it is the message
\* read; the success message is printed only after send_message succeeded;
\* a command that failed returned an error and printed nothing.
C18_SendOrderAndWiring ==
    /\ sendPc \in {"built", "msg", "sent", "done"} =>
          /\ account.exists
          /\ send_message_kind(account) \in SendingKinds =>
                ctx.send_message = send_message_kind(account)
          /\ send_message_kind(account) \notin SendingKinds =>
                ctx.send_message = "None"
    /\ sendPc \in {"start", "configs", "built", "msg"} =>
          outbox = <<>> /\ printed = <<>>
    /\ sendPc \in {"start", "configs"} => ctx = NoCtx /\ msg = <<>>
    /\ outbox # <<>> =>
          /\ outbox = <<<<send_message_kind(account), msg>>>>
          /\ send_message_kind(account) \in SendingKinds
    /\ sendPc \in {"sent", "done"} => Len(outbox) = 1
    /\ printed # <<>> =>
          /\ printed = <<"Message successfully sent!">>
          /\ sendPc = "done"
          /\ sendRet = Ok("")
    /\ sendPc = "failed" => sendRet.tag = "Err" /\ printed = <<>>

\* Sendmail is assigned in an account that has both sections: the message
\* went to the sendmail sender and the success message was printed.
C18_Witness ==
    /\ send_message_kind(account) = "Sendmail"
    /\ account.smtp
    /\ account.sendmail
    /\ sendPc = "done"
    /\ Len(msg) > 0
    /\ outbox = <<<<"Sendmail", msg>>>>
    /\ printed = <<"Message successfully sent!">>

RetrievalKinds == {"Imap", "Maildir", "Notmuch"}

\* The kinds that are legal for the capability the called function configures.
LegalKinds == IF wizFn = "configure" THEN RetrievalKinds ELSE SendingKinds

\* C19: configure runs only wizards of retrieval kinds and configure_sender
\* only wizards of sending kinds, at most one per call; when the user chose
\* a kind, the wizard run is the one of that kind and a configuration
\* returned is the one of that kind; when the user left the prompt without a
\* choice, the result is Ok(None) and no kind wizard was run.
C19_WizardRunsLegalSelectedKind ==
    /\ Len(wizRan) <= 1
    /\ \A i \in 1..Len(wizRan) : wizRan[i] \in LegalKinds
    /\ wizPc \in {"start", "match"} => wizRan = <<>> /\ wizRet.tag # "Ok"
    /\ wizPc = "done" =>
          /\ wizPick \in {"cancel", "error"} \cup LegalKinds
          /\ wizPick = "cancel" => wizRet = Ok(None) /\ wizRan = <<>>
          /\ wizPick = "error" => wizRet.tag = "Err" /\ wizRan = <<>>
          /\ wizPick \in LegalKinds =>
                /\ wizRan = <<wizPick>>
                /\ wizRet.tag = "Ok" => wizRet = Ok(Some(BackendConfig(wizPick)))

\* In a build with both sending kinds the user chose the second item,
\* Sendmail, and configure_sender returned the sendmail configuration.
C19_Witness ==
    /\ wizFn = "configure_sender"
    /\ {"smtp", "sendmail"} \subseteq wizFeatures
    /\ wizPc = "done"
    /\ wizPick = "Sendmail"
    /\ wizRan = <<"Sendmail">>
    /\ wizRet = Ok(Some(BackendConfig("Sendmail")))

\* The user left the prompt of configure without a choice.
C19_WitnessCancel ==
    /\ wizFn = "configure"
    /\ wizPc = "done"
    /\ wizPick = "cancel"
    /\ wizRet = Ok(None)
    /\ wizRan = <<>>

\* The matches of `account sync` that the matcher was handed.
SyncMatched == syncArgs.account.some /\ syncArgs.account.val.sub = "sync"

\* C20: for every combination of the arguments of `account sync` the matcher
\* returns Sync with the strategy picked by this precedence: a global source
\* folder gives Include of that folder alone; else a non-empty include set
\* gives Include of it; else a non-empty exclude set gives Exclude of it; else
\* the all flag gives All; else no strategy.  The dry-run flag is returned
\* as given.
C20_SyncStrategyPrecedence ==
    syncPc = "done" /\ SyncMatched =>
        LET a == syncArgs.account.val
        IN  /\ syncCmd.tag = "Ok"
            /\ syncCmd.val.some
            /\ syncCmd.val.val.cmd = "Sync"
            /\ syncCmd.val.val.dry_run = a.dry_run
            /\ LET strategy == syncCmd.val.val.strategy
               IN  /\ a.source.some =>
                         strategy = Some(Include({a.source.val}))
                   /\ ~a.source.some /\ a.include # {} =>
                         strategy = Some(Include(a.include))
                   /\ ~a.source.some /\ a.include = {} /\ a.exclude # {} =>
                         strategy = Some(Exclude(a.exclude))
                   /\ ~a.source.some /\ a.include = {} /\ a.exclude = {} /\ a.all =>
                         strategy = Some(All)
                   /\ ~a.source.some /\ a.include = {} /\ a.exclude = {} /\ ~a.all =>
                         strategy = None

\* Include and exclude sets and the all flag were given together, without
\* a global source folder: the include set won, dry-run was kept.
C20_Witness ==
    /\ syncPc = "done"
    /\ SyncMatched
    /\ ~syncArgs.account.val.source.some
    /\ syncArgs.account.val.include = {"INBOX"}
    /\ syncArgs.account.val.exclude = {"Sent"}
    /\ syncArgs.account.val.all
    /\ syncArgs.account.val.dry_run
    /\ syncCmd = Ok(Some(Cmd_Sync(Some(Include({"INBOX"})), TRUE)))

====
